---- MODULE Spec2Model ----
(***************************************************************************)
(* Model of the monitor registry of oxenss/server/omq_monitor.cpp:         *)
(* merge_namespaces, OMQ::update_monitors, OMQ::handle_monitor_messages,   *)
(* write_metadata and OMQ::send_notifies.                                  *)
(***************************************************************************)
EXTENDS Integers, Sequences, FiniteSets, TLC

\* ------------------------------------------------------------------ bounds
MaxNs == 2          \* namespace ids are 1..MaxNs
MaxEntries == 2     \* cap on the number of stored monitors
MaxTime == 2        \* the steady clock runs over 0..MaxTime
MaxItems == 2       \* longest list request
MaxBatch == 1       \* longest batch of a direct update_monitors call
MaxMergeNs == 4     \* merge_namespaces is tried on the subsets of 1..MaxMergeNs

\* ------------------------------------------------------------ value spaces
None == "none"
Garbage == "garbage"
Keys == {"k1", "k2"}
Conns == {"o1", "o2"}
Quics == {"q1"}
NsIds == 1..MaxNs

\* monitor lifetime added to the clock by reset_expiry
TTL == 1

IsSorted(s) == \A i \in 1..(Len(s) - 1) : s[i] < s[i + 1]

\* sorted duplicate-free namespace vectors of a request
NsVectors == {s \in UNION {[1..n -> NsIds] : n \in 1..MaxNs} : IsSorted(s)}

SeqToSet(s) == {s[i] : i \in 1..Len(s)}

\* ---------------------------------------------------------- merge_namespaces
\* first loop of merge_namespaces: position reached by itb
RECURSIVE merge_subset_walk(_, _, _, _)
merge_subset_walk(a, b, ita, itb) ==
    IF ita <= Len(a) /\ itb <= Len(b)
    THEN IF b[itb] > a[ita] THEN merge_subset_walk(a, b, ita + 1, itb)
         ELSE IF b[itb] = a[ita] THEN merge_subset_walk(a, b, ita + 1, itb + 1)
         ELSE itb
    ELSE itb

\* a merge pass that does not step over the second copy of a shared value
RECURSIVE merge_build_twice(_, _, _, _, _)
merge_build_twice(a, b, ita, itb, c) ==
    IF ita <= Len(a) \/ itb <= Len(b)
    THEN IF itb > Len(b) THEN merge_build_twice(a, b, ita + 1, itb, Append(c, a[ita]))
         ELSE IF ita > Len(a) THEN merge_build_twice(a, b, ita, itb + 1, Append(c, b[itb]))
         ELSE IF a[ita] < b[itb] THEN merge_build_twice(a, b, ita + 1, itb, Append(c, a[ita]))
         ELSE IF a[ita] = b[itb] THEN merge_build_twice(a, b, ita + 1, itb, Append(c, a[ita]))
         ELSE merge_build_twice(a, b, ita, itb + 1, Append(c, b[itb]))
    ELSE c

\* second loop of merge_namespaces: the new container c
RECURSIVE merge_build(_, _, _, _, _)
merge_build(a, b, ita, itb, c) ==
    IF ita <= Len(a) \/ itb <= Len(b)
    THEN IF itb > Len(b) THEN merge_build(a, b, ita + 1, itb, Append(c, a[ita]))
         ELSE IF ita > Len(a) THEN merge_build(a, b, ita, itb + 1, Append(c, b[itb]))
         ELSE IF a[ita] < b[itb] THEN merge_build(a, b, ita + 1, itb, Append(c, a[ita]))
         ELSE IF a[ita] = b[itb] THEN merge_build(a, b, ita + 1, itb + 1, Append(c, a[ita]))
         ELSE merge_build(a, b, ita, itb + 1, Append(c, b[itb]))
    ELSE c

\* the test before a.swap(b)
merge_swaps(a, b) == b # <<>> /\ (a = <<>> \/ b[1] < a[1])

\* a merge that puts the requested vector after the stored one
merge_namespaces_append(a, b) == a \o b

\* merge_namespaces(a, b): the vector it returns
merge_namespaces(a, b) ==
    LET a1 == IF merge_swaps(a, b) THEN b ELSE a
        b1 == IF merge_swaps(a, b) THEN a ELSE b
    IN  IF merge_subset_walk(a1, b1, 1, 1) > Len(b1)
        THEN a1
        ELSE merge_build(a1, b1, 1, 1, <<>>)

\* which container merge_namespaces returns: the parameter a or b it was
\* given, moved out, or the new vector c
merge_returns(a, b) ==
    LET a1 == IF merge_swaps(a, b) THEN b ELSE a
        b1 == IF merge_swaps(a, b) THEN a ELSE b
    IN  IF merge_subset_walk(a1, b1, 1, 1) > Len(b1)
        THEN (IF merge_swaps(a, b) THEN "b" ELSE "a")
        ELSE "c"

\* ------------------------------------------------------------ monitor entry
\* mon_data.reset_expiry()
reset_expiry(t) == t + TTL

\* the monitor constructed by monitoring_.emplace(...)
new_monitor(sub, omq, quic, t) ==
    [namespaces |-> sub.namespaces, want_data |-> sub.want_data,
     push_conn |-> omq, quic |-> quic, expiry |-> reset_expiry(t)]

\* a renewal test that takes any monitor of the key, whatever its transport
monitor_matches_any(mon_data, omq, quic) == omq # None \/ quic # None

\* the test that selects the monitor to renew
monitor_matches(mon_data, omq, quic) ==
    \/ (omq # None /\ mon_data.push_conn = omq)
    \/ (quic # None /\ mon_data.quic = quic)

\* a renewal that takes the caller's transport handles
renew_monitor_replace(mon_data, sub, omq, quic, t) ==
    [namespaces |-> merge_namespaces(mon_data.namespaces, sub.namespaces),
     want_data |-> (mon_data.want_data \/ sub.want_data),
     push_conn |-> IF omq # None THEN omq ELSE mon_data.push_conn,
     quic |-> IF quic # None THEN quic ELSE mon_data.quic,
     expiry |-> reset_expiry(t)]

\* a renewal that leaves the expiry as it was
renew_monitor_no_reset(mon_data, sub, omq, quic, t) ==
    [namespaces |-> merge_namespaces(mon_data.namespaces, sub.namespaces),
     want_data |-> (mon_data.want_data \/ sub.want_data),
     push_conn |-> IF omq # None /\ mon_data.push_conn = None THEN omq ELSE mon_data.push_conn,
     quic |-> IF quic # None /\ mon_data.quic = None THEN quic ELSE mon_data.quic,
     expiry |-> mon_data.expiry]

\* a renewal that stores the requested namespaces instead of merging them
renew_monitor_overwrite(mon_data, sub, omq, quic, t) ==
    [namespaces |-> sub.namespaces,
     want_data |-> (mon_data.want_data \/ sub.want_data),
     push_conn |-> IF omq # None /\ mon_data.push_conn = None THEN omq ELSE mon_data.push_conn,
     quic |-> IF quic # None /\ mon_data.quic = None THEN quic ELSE mon_data.quic,
     expiry |-> reset_expiry(t)]

\* the body of the renewal branch
renew_monitor(mon_data, sub, omq, quic, t) ==
    [namespaces |-> merge_namespaces(mon_data.namespaces, sub.namespaces),
     want_data |-> (mon_data.want_data \/ sub.want_data),
     push_conn |-> IF omq # None /\ mon_data.push_conn = None THEN omq ELSE mon_data.push_conn,
     quic |-> IF quic # None /\ mon_data.quic = None THEN quic ELSE mon_data.quic,
     expiry |-> reset_expiry(t)]

\* index of the first monitor of the equal_range that matches, 0 if none
RECURSIVE first_match(_, _, _, _)
first_match(range, omq, quic, it) ==
    IF it > Len(range) THEN 0
    ELSE IF monitor_matches(range[it], omq, quic) THEN it
    ELSE first_match(range, omq, quic, it + 1)

InsertAt(s, p, e) == SubSeq(s, 1, p - 1) \o <<e>> \o SubSeq(s, p, Len(s))

\* where emplace may put a monitor among those of the same key
emplace_positions(range) == 1..(Len(range) + 1)

\* an iteration that drops the expired monitors of the key before it inserts
update_one_sweep(reg, sub, omq, quic, t) ==
    LET range == reg[sub.pubkey]
        it == first_match(range, omq, quic, 1)
        kept == SelectSeq(range, LAMBDA mon_data : mon_data.expiry >= t)
    IN  IF it # 0
        THEN {[reg EXCEPT ![sub.pubkey][it] = renew_monitor(range[it], sub, omq, quic, t)]}
        ELSE {[reg EXCEPT ![sub.pubkey] = InsertAt(kept, p, new_monitor(sub, omq, quic, t))] :
                 p \in emplace_positions(kept)}

\* one iteration of the loop over subs: the registries it can produce
update_one(reg, sub, omq, quic, t) ==
    LET range == reg[sub.pubkey]
        it == first_match(range, omq, quic, 1)
    IN  IF it # 0
        THEN {[reg EXCEPT ![sub.pubkey][it] = renew_monitor(range[it], sub, omq, quic, t)]}
        ELSE {[reg EXCEPT ![sub.pubkey] = InsertAt(range, p, new_monitor(sub, omq, quic, t))] :
                 p \in emplace_positions(range)}

\* OMQ::update_monitors: the registries the whole batch can produce
RECURSIVE update_monitors(_, _, _, _, _)
update_monitors(reg, subs, omq, quic, t) ==
    IF subs = <<>> THEN {reg}
    ELSE UNION {update_monitors(r, Tail(subs), omq, quic, t) :
                   r \in update_one(reg, Head(subs), omq, quic, t)}

RECURSIVE SumLen(_, _)
SumLen(reg, ks) ==
    IF ks = {} THEN 0
    ELSE LET k == CHOOSE x \in ks : TRUE IN Len(reg[k]) + SumLen(reg, ks \ {k})

NumEntries(reg) == SumLen(reg, Keys)

\* ------------------------------------------------------------ send_notifies
\* std::binary_search over the sorted namespaces: lower_bound, then a test
RECURSIVE lower_bound(_, _, _, _)
lower_bound(v, first, count, x) ==
    IF count > 0
    THEN LET step == count \div 2
             mid == first + step
         IN  IF v[mid] < x
             THEN lower_bound(v, mid + 1, count - (step + 1), x)
             ELSE lower_bound(v, first, step, x)
    ELSE first

binary_search(v, x) ==
    LET it == lower_bound(v, 1, Len(v), x)
    IN  it <= Len(v) /\ ~(x < v[it])

\* a scan condition that forgets the expiry
monitor_selected_stale(mon_data, ns, t) == binary_search(mon_data.namespaces, ns)

\* the condition under which the scan pushes a target
monitor_selected(mon_data, ns, t) ==
    mon_data.expiry >= t /\ binary_search(mon_data.namespaces, ns)

\* what *mon_data.push_conn can yield: the id when present; when absent the
\* read is undefined: the process faults, or some connection id comes back
deref_push_conn(mon_data) ==
    IF mon_data.push_conn # None THEN {mon_data.push_conn}
    ELSE {"fault", Garbage} \cup Conns

NoTargets ==
    [fault |-> FALSE, deref_absent |-> FALSE, relay_to |-> <<>>,
     relay_to_with_data |-> <<>>, picked |-> <<>>]

\* the loop over equal_range(pubkey) under the shared lock: every outcome
RECURSIVE scan_monitors(_, _, _, _, _)
scan_monitors(range, it, ns, t, acc) ==
    IF it > Len(range) THEN {acc}
    ELSE IF ~monitor_selected(range[it], ns, t)
    THEN scan_monitors(range, it + 1, ns, t, acc)
    ELSE UNION {
        LET acc1 == [acc EXCEPT !.deref_absent = @ \/ range[it].push_conn = None,
                                !.picked = Append(@, it)]
        IN  IF c = "fault" THEN {[acc1 EXCEPT !.fault = TRUE]}
            ELSE IF range[it].want_data
            THEN scan_monitors(range, it + 1, ns, t,
                               [acc1 EXCEPT !.relay_to_with_data = Append(@, c)])
            ELSE scan_monitors(range, it + 1, ns, t,
                               [acc1 EXCEPT !.relay_to = Append(@, c)])
        : c \in deref_push_conn(range[it])}

\* a metadata writer that puts the expiry before the timestamp
write_metadata_swapped(d, pubkey, msg) ==
    d \o << <<"@", pubkey>>, <<"h", msg.hash>>, <<"n", msg.msg_namespace>>,
            <<"z", msg.expiry>>, <<"t", msg.timestamp>> >>

\* write_metadata(d, pubkey, msg)
write_metadata(d, pubkey, msg) ==
    d \o << <<"@", pubkey>>, <<"h", msg.hash>>, <<"n", msg.msg_namespace>>,
            <<"t", msg.timestamp>>, <<"z", msg.expiry>> >>

\* d.view(): the bytes of the dict as it stands, from its opening d to the
\* closing e that the next append overwrites
view(d) == << <<"d">> >> \o d \o << <<"e">> >>

\* the omq_.send calls made after the lock is released, in order
notify_sends(msg, targets) ==
    IF targets.fault \/ (targets.relay_to = <<>> /\ targets.relay_to_with_data = <<>>)
    THEN <<>>
    ELSE LET d == write_metadata(<<>>, msg.pubkey, msg)
             dd == Append(d, <<"~", msg.data>>)
         IN  [i \in 1..Len(targets.relay_to) |->
                 [conn |-> targets.relay_to[i], payload |-> view(d)]]
             \o [i \in 1..Len(targets.relay_to_with_data) |->
                 [conn |-> targets.relay_to_with_data[i], payload |-> view(dd)]]

\* --------------------------------------------------- handle_monitor_messages
\* A request string is a sequence of tokens: the framing bytes d, l, e, a
\* byte x that is none of them, and the body of one subscription item (its
\* account key, namespaces and data flag), well-formed or not.
Byte(c) == [c |-> c]
ItemBody(sub) == [c |-> "body", sub |-> sub]
BadBody == [c |-> "badbody"]

Front(m) == m[1]
Back(m) == m[Len(m)]

\* an argument test that does not look at the last byte
bad_framing_open(data) ==
    \/ Len(data) # 1
    \/ Len(data[1]) < 2
    \/ ~(Front(data[1]).c = "d" \/ Front(data[1]).c = "l")

\* the argument test at the top of handle_monitor_messages: TRUE when it rejects
bad_framing(data) ==
    \/ Len(data) # 1
    \/ Len(data[1]) < 2
    \/ ~(Front(data[1]).c = "d" \/ Front(data[1]).c = "l")
    \/ Back(data[1]).c # "e"

\* handle_monitor_message_single on the dict that starts at m[i]: the item it
\* appends to subs, or a throw
handle_monitor_message_single(m, i) ==
    IF i + 2 <= Len(m) /\ m[i].c = "d" /\ m[i + 1].c = "body" /\ m[i + 2].c = "e"
    THEN [threw |-> FALSE, sub |-> m[i + 1].sub]
    ELSE [threw |-> TRUE]

\* a list loop that stops after the first item
consume_list_once(m, i, subs) ==
    IF i > Len(m) THEN [threw |-> TRUE, subs |-> subs]
    ELSE IF m[i].c = "e" THEN [threw |-> FALSE, subs |-> subs]
    ELSE LET one == handle_monitor_message_single(m, i)
         IN  IF one.threw THEN [threw |-> TRUE, subs |-> subs]
             ELSE [threw |-> FALSE, subs |-> Append(subs, one.sub)]

\* the loop over bt_list_consumer l: subs grows until the list ends or a throw
RECURSIVE consume_list(_, _, _)
consume_list(m, i, subs) ==
    IF i > Len(m) THEN [threw |-> TRUE, subs |-> subs]
    ELSE IF m[i].c = "e" THEN [threw |-> FALSE, subs |-> subs]
    ELSE LET one == handle_monitor_message_single(m, i)
         IN  IF one.threw THEN [threw |-> TRUE, subs |-> subs]
             ELSE consume_list(m, i + 3, Append(subs, one.sub))

\* the try block: the local subs and whether an exception left it
parse_request(m) ==
    IF Front(m).c = "d"
    THEN LET one == handle_monitor_message_single(m, 1)
         IN  IF one.threw THEN [threw |-> TRUE, subs |-> <<>>, shape |-> "dict"]
             ELSE [threw |-> FALSE, subs |-> <<one.sub>>, shape |-> "dict"]
    ELSE [shape |-> "list"] @@ consume_list(m, 2, <<>>)

BadArgs == [kind |-> "BAD_ARGS", n |-> 1]

\* a handler that goes on to update_monitors after the catch block
calls_update_partial(parsed) == parsed.subs # <<>>

\* whether control reaches update_monitors(subs, message.conn)
calls_update(parsed) == ~parsed.threw /\ parsed.subs # <<>>

\* OMQ::handle_monitor_messages: every [registry, reply] it can end with
handle_monitor_messages(reg, message, t) ==
    IF bad_framing(message.data)
    THEN {[reg |-> reg, replies |-> <<BadArgs>>, updated |-> <<>>]}
    ELSE LET parsed == parse_request(message.data[1])
             subs == IF calls_update(parsed) THEN parsed.subs ELSE <<>>
             reply == IF parsed.threw THEN BadArgs
                      ELSE [kind |-> parsed.shape, n |-> Len(parsed.subs)]
         IN  {[reg |-> r, replies |-> <<reply>>, updated |-> subs] :
                 r \in IF subs = <<>> THEN {reg}
                       ELSE update_monitors(reg, subs, message.conn, None, t)}

\* ------------------------------------------------------------------- state
VARIABLES
    monitoring,     \* monitoring_: account key -> its monitors, in equal_range order
    now,            \* the steady clock
    last,           \* the handler that ran last, with what it was given and did
    mutex,          \* monitoring_mutex_: its exclusive owner and its shared owners
    pc,             \* where each worker thread is
    loc,            \* the locals of the call each worker thread is in
    committed       \* the registry as the last finished batch left it

threads == <<mutex, pc, loc, committed>>

vars == <<monitoring, now, last, mutex, pc, loc, committed>>

Workers == {"w1", "w2"}

NoLocals ==
    [subs |-> <<>>, omq |-> None, i |-> 0, msg |-> None, it |-> 0,
     relay_to |-> <<>>, relay_to_with_data |-> <<>>]

SubInfos == [pubkey : Keys, namespaces : NsVectors, want_data : BOOLEAN]

Batches == UNION {[1..n -> SubInfos] : n \in 1..MaxBatch}

Messages ==
    [pubkey : Keys, hash : {"h0"}, msg_namespace : NsIds, timestamp : {10},
     expiry : {20}, data : {"data"}]

\* the subscriptions requests ask for: any for the first account, one for the others
ReqSubs ==
    {sub \in SubInfos : sub.pubkey = "k1" \/ (sub.namespaces = <<1>> /\ sub.want_data)}

\* one item of a request as a client writes it: a well-formed subscription, a
\* dict whose fields do not parse, or a byte that starts no dict
GoodItems == [ok : {TRUE}, sub : ReqSubs]
BadItems == {[ok |-> FALSE, how |-> "badbody"], [ok |-> FALSE, how |-> "garbage"]}
Items == GoodItems \cup BadItems

EncodeItem(item) ==
    IF item.ok THEN <<Byte("d"), ItemBody(item.sub), Byte("e")>>
    ELSE IF item.how = "badbody" THEN <<Byte("d"), BadBody, Byte("e")>>
    ELSE <<Byte("x")>>

RECURSIVE EncodeItems(_)
EncodeItems(items) ==
    IF items = <<>> THEN <<>> ELSE EncodeItem(Head(items)) \o EncodeItems(Tail(items))

EncodeRequest(shape, items) ==
    IF shape = "dict" THEN EncodeItem(items[1])
    ELSE <<Byte("l")>> \o EncodeItems(items) \o <<Byte("e")>>

ItemLists == UNION {[1..n -> Items] : n \in 0..MaxItems}

AnySub == CHOOSE sub \in ReqSubs : TRUE

\* request strings that are not the encoding of a dict or of a list of dicts
RawStrings ==
    { <<>>,
      <<Byte("e")>>,
      <<Byte("d")>>,
      <<Byte("x"), ItemBody(AnySub), Byte("e")>>,
      <<Byte("d"), ItemBody(AnySub), Byte("x")>>,
      <<Byte("d"), ItemBody(AnySub), Byte("e"), Byte("x")>>,
      <<Byte("l"), Byte("d"), ItemBody(AnySub), Byte("e"), Byte("x")>>,
      <<Byte("l"), Byte("d"), ItemBody(AnySub), Byte("e")>>,
      <<Byte("d"), Byte("e")>> }

\* the process is gone once a fanout faulted
Crashed == last.op = "notify" /\ last.targets.fault

Init ==
    /\ monitoring = [k \in Keys |-> <<>>]
    /\ now = 0
    /\ last = [op |-> "init"]
    /\ mutex = [writer |-> None, readers |-> {}]
    /\ pc = [w \in Workers |-> "idle"]
    /\ loc = [w \in Workers |-> NoLocals]
    /\ committed = monitoring

\* a caller of update_monitors
UpdateMonitors(subs, omq, quic) ==
    /\ ~Crashed
    /\ \E r \in update_monitors(monitoring, subs, omq, quic, now) :
          /\ NumEntries(r) <= MaxEntries
          /\ monitoring' = r
    /\ last' = [op |-> "update", keys |-> [i \in 1..Len(subs) |-> subs[i].pubkey],
                 omq |-> omq, quic |-> quic,
                 stale |-> \E i \in 1..Len(subs) :
                     LET range == monitoring[subs[i].pubkey]
                         it == first_match(range, omq, quic, 1)
                     IN  it # 0 /\ range[it].expiry < now]
    /\ UNCHANGED <<now, threads>>

\* OMQ::send_notifies(msg)
SendNotifies(msg) ==
    /\ ~Crashed
    /\ \E targets \in scan_monitors(monitoring[msg.pubkey], 1, msg.msg_namespace, now, NoTargets) :
          last' = [op |-> "notify", msg |-> msg, targets |-> targets,
                   sends |-> notify_sends(msg, targets)]
    /\ UNCHANGED <<monitoring, now, threads>>

\* the steady clock advances
Tick ==
    /\ ~Crashed
    /\ now < MaxTime
    /\ now' = now + 1
    /\ last' = [op |-> "tick"]
    /\ UNCHANGED <<monitoring, threads>>

Next ==
    \/ \E subs \in Batches, omq \in Conns \cup {None}, quic \in Quics \cup {None} :
          UpdateMonitors(subs, omq, quic)
    \/ Tick

\* every way the signature of update_monitors can be called, and the clock
Spec == Init /\ [][Next]_vars

\* the queue caller passes message.conn only
OmqSubscribe(subs, omq) == UpdateMonitors(subs, omq, None)

\* the QUIC caller passes its connection only
QuicSubscribe(subs, quic) == UpdateMonitors(subs, None, quic)

NextNotify ==
    \/ \E subs \in Batches, omq \in Conns : OmqSubscribe(subs, omq)
    \/ \E subs \in Batches, quic \in Quics : QuicSubscribe(subs, quic)
    \/ \E msg \in Messages : SendNotifies(msg)
    \/ Tick

\* subscriptions arriving over either transport, fanout, and the clock
SpecNotify == Init /\ [][NextNotify]_vars

\* handle_monitor_messages on the encoding of a dict or a list of items
HandleItems(shape, items, conn) ==
    /\ ~Crashed
    /\ shape = "dict" => (Len(items) = 1 /\ items[1] # [ok |-> FALSE, how |-> "garbage"])
    /\ \E out \in handle_monitor_messages(monitoring,
                      [data |-> <<EncodeRequest(shape, items)>>, conn |-> conn], now) :
          /\ NumEntries(out.reg) <= MaxEntries
          /\ monitoring' = out.reg
          /\ last' = [op |-> "handle", input |-> "items", shape |-> shape,
                      items |-> items,
                      oks |-> [i \in 1..Len(items) |-> items[i].ok], conn |-> conn,
                      replies |-> out.replies, updated |-> out.updated]
    /\ UNCHANGED <<now, threads>>

\* handle_monitor_messages on any other argument
HandleRaw(data, conn) ==
    /\ ~Crashed
    /\ \E out \in handle_monitor_messages(monitoring, [data |-> data, conn |-> conn], now) :
          /\ NumEntries(out.reg) <= MaxEntries
          /\ monitoring' = out.reg
          /\ last' = [op |-> "handle", input |-> "raw", parts |-> Len(data),
                      empty |-> (Len(data) = 1 /\ data[1] = <<>>),
                      first |-> IF Len(data) = 1 /\ data[1] # <<>> THEN data[1][1].c ELSE None,
                      back |-> IF Len(data) = 1 /\ data[1] # <<>>
                               THEN data[1][Len(data[1])].c ELSE None,
                      conn |-> conn, replies |-> out.replies, updated |-> out.updated]
    /\ UNCHANGED <<now, threads>>

NextReq ==
    \/ \E items \in ItemLists, conn \in Conns : HandleItems("list", items, conn)
    \/ \E item \in Items, conn \in Conns : HandleItems("dict", <<item>>, conn)
    \/ \E m \in RawStrings, conn \in Conns : HandleRaw(<<m>>, conn)
    \/ \E conn \in Conns : HandleRaw(<<>>, conn)
    \/ \E conn \in Conns : HandleRaw(<<EncodeItem([ok |-> TRUE, sub |-> AnySub]),
                                      EncodeItem([ok |-> TRUE, sub |-> AnySub])>>, conn)

\* monitor.messages requests arriving on queue connections
SpecReq == Init /\ [][NextReq]_vars

\* ------------------------------------------------------- worker threads
\* what concurrent callers ask for: namespace 1 without the data, 2 with it
ConcSubs ==
    {sub \in ReqSubs : sub.pubkey = "k1" /\ Len(sub.namespaces) = 1
                        /\ (sub.want_data <=> sub.namespaces = <<2>>)}
ConcBatches == UNION {[1..n -> ConcSubs] : n \in 1..MaxItems}
ConcMessages == {msg \in Messages : msg.pubkey = "k1"}

\* a fanout that scans without waiting for the exclusive owner
can_lock_shared_unguarded(m) == TRUE

\* a fanout that takes the mutex as an exclusive owner would
can_lock_shared_alone(m) == m.writer = None /\ m.readers = {}

\* std::shared_lock can be taken while nobody owns the mutex exclusively
can_lock_shared(m) == m.writer = None

\* std::unique_lock can be taken while nobody owns the mutex at all
can_lock_unique(m) == m.writer = None /\ m.readers = {}

\* a worker enters update_monitors(subs, message.conn)
UpdateCall(w, subs, omq) ==
    /\ pc[w] = "idle"
    /\ pc' = [pc EXCEPT ![w] = "update_lock"]
    /\ loc' = [loc EXCEPT ![w] = [NoLocals EXCEPT !.subs = subs, !.omq = omq, !.i = 1]]
    /\ UNCHANGED <<monitoring, now, last, mutex, committed>>

\* std::unique_lock lock{monitoring_mutex_}
UpdateLock(w) ==
    /\ pc[w] = "update_lock"
    /\ can_lock_unique(mutex)
    /\ mutex' = [mutex EXCEPT !.writer = w]
    /\ pc' = [pc EXCEPT ![w] = "update_loop"]
    /\ UNCHANGED <<monitoring, now, last, loc, committed>>

\* one iteration of the loop over subs
UpdateItem(w) ==
    /\ pc[w] = "update_loop"
    /\ loc[w].i <= Len(loc[w].subs)
    /\ \E r \in update_one(monitoring, loc[w].subs[loc[w].i], loc[w].omq, None, now) :
          /\ NumEntries(r) <= MaxEntries
          /\ monitoring' = r
    /\ loc' = [loc EXCEPT ![w].i = @ + 1]
    /\ UNCHANGED <<now, last, mutex, pc, committed>>

\* the loop is over: the lock is released as update_monitors returns
UpdateReturn(w) ==
    /\ pc[w] = "update_loop"
    /\ loc[w].i > Len(loc[w].subs)
    /\ mutex' = [mutex EXCEPT !.writer = IF @ = w THEN None ELSE @]
    /\ committed' = monitoring
    /\ pc' = [pc EXCEPT ![w] = "idle"]
    /\ loc' = [loc EXCEPT ![w] = NoLocals]
    /\ UNCHANGED <<monitoring, now, last>>

\* a worker enters send_notifies(msg)
NotifyCall(w, msg) ==
    /\ pc[w] = "idle"
    /\ pc' = [pc EXCEPT ![w] = "scan_lock"]
    /\ loc' = [loc EXCEPT ![w] = [NoLocals EXCEPT !.msg = msg, !.it = 1]]
    /\ UNCHANGED <<monitoring, now, last, mutex, committed>>

\* std::shared_lock lock{monitoring_mutex_}
ScanLock(w) ==
    /\ pc[w] = "scan_lock"
    /\ can_lock_shared(mutex)
    /\ mutex' = [mutex EXCEPT !.readers = @ \cup {w}]
    /\ pc' = [pc EXCEPT ![w] = "scan_loop"]
    /\ UNCHANGED <<monitoring, now, last, loc, committed>>

\* one iteration of the loop over equal_range(pubkey)
ScanItem(w) ==
    /\ pc[w] = "scan_loop"
    /\ loc[w].it <= Len(monitoring[loc[w].msg.pubkey])
    /\ LET mon_data == monitoring[loc[w].msg.pubkey][loc[w].it]
       IN  \E c \in deref_push_conn(mon_data) \ {"fault"} :
              loc' = [loc EXCEPT
                  ![w].it = @ + 1,
                  ![w].relay_to =
                      IF monitor_selected(mon_data, loc[w].msg.msg_namespace, now)
                         /\ ~mon_data.want_data
                      THEN Append(@, c) ELSE @,
                  ![w].relay_to_with_data =
                      IF monitor_selected(mon_data, loc[w].msg.msg_namespace, now)
                         /\ mon_data.want_data
                      THEN Append(@, c) ELSE @]
    /\ UNCHANGED <<monitoring, now, last, mutex, pc, committed>>

\* a send_notifies whose shared lock lives until the function returns
ScanKeepLock(w) ==
    /\ pc[w] = "scan_loop"
    /\ loc[w].it > Len(monitoring[loc[w].msg.pubkey])
    /\ IF loc[w].relay_to = <<>> /\ loc[w].relay_to_with_data = <<>>
       THEN /\ pc' = [pc EXCEPT ![w] = "idle"]
            /\ loc' = [loc EXCEPT ![w] = NoLocals]
            /\ mutex' = [mutex EXCEPT !.readers = @ \ {w}]
       ELSE pc' = [pc EXCEPT ![w] = "send"] /\ UNCHANGED <<loc, mutex>>
    /\ UNCHANGED <<monitoring, now, last, committed>>

\* the scope of the shared lock ends; with no target send_notifies returns
ScanUnlock(w) ==
    /\ pc[w] = "scan_loop"
    /\ loc[w].it > Len(monitoring[loc[w].msg.pubkey])
    /\ mutex' = [mutex EXCEPT !.readers = @ \ {w}]
    /\ IF loc[w].relay_to = <<>> /\ loc[w].relay_to_with_data = <<>>
       THEN pc' = [pc EXCEPT ![w] = "idle"] /\ loc' = [loc EXCEPT ![w] = NoLocals]
       ELSE pc' = [pc EXCEPT ![w] = "send"] /\ UNCHANGED loc
    /\ UNCHANGED <<monitoring, now, last, committed>>

\* one omq_.send: metadata-only targets first, then those that want the data
SendOne(w) ==
    /\ pc[w] = "send"
    /\ loc[w].relay_to # <<>> \/ loc[w].relay_to_with_data # <<>>
    /\ IF loc[w].relay_to # <<>>
       THEN loc' = [loc EXCEPT ![w].relay_to = Tail(@)]
       ELSE loc' = [loc EXCEPT ![w].relay_to_with_data = Tail(@)]
    /\ UNCHANGED <<monitoring, now, last, mutex, pc, committed>>

\* every target was sent to: send_notifies returns
NotifyReturn(w) ==
    /\ pc[w] = "send"
    /\ loc[w].relay_to = <<>> /\ loc[w].relay_to_with_data = <<>>
    /\ pc' = [pc EXCEPT ![w] = "idle"]
    /\ loc' = [loc EXCEPT ![w] = NoLocals]
    /\ UNCHANGED <<monitoring, now, last, mutex, committed>>

NextConc ==
    \/ \E w \in Workers, subs \in ConcBatches, omq \in Conns : UpdateCall(w, subs, omq)
    \/ \E w \in Workers : UpdateLock(w)
    \/ \E w \in Workers : UpdateItem(w)
    \/ \E w \in Workers : UpdateReturn(w)
    \/ \E w \in Workers, msg \in ConcMessages : NotifyCall(w, msg)
    \/ \E w \in Workers : ScanLock(w)
    \/ \E w \in Workers : ScanItem(w)
    \/ \E w \in Workers : ScanUnlock(w)
    \/ \E w \in Workers : SendOne(w)
    \/ \E w \in Workers : NotifyReturn(w)

\* worker threads running update_monitors and send_notifies side by side
SpecConc == Init /\ [][NextConc]_vars

\* the steps a worker takes by itself once it is inside a call
WorkerStep(w) ==
    \/ UpdateLock(w) \/ UpdateItem(w) \/ UpdateReturn(w)
    \/ ScanLock(w) \/ ScanItem(w) \/ ScanUnlock(w) \/ SendOne(w) \/ NotifyReturn(w)

\* the worker threads, each scheduled again and again; the mutex promises no
\* order among the threads that wait for it
SpecConcFair == SpecConc /\ \A w \in Workers : WF_vars(WorkerStep(w))

\* ------------------------------------------------------ merge_namespaces
\* sorted duplicate-free vectors over 1..MaxMergeNs, the empty one included
MergeVectors ==
    {v \in UNION {[1..n -> 1..MaxMergeNs] : n \in 0..MaxMergeNs} : IsSorted(v)}

InitMerge ==
    /\ monitoring = [k \in Keys |-> <<>>]
    /\ now = 0
    /\ last \in {[op |-> "merge_call", a |-> a, b |-> b] : a, b \in MergeVectors}
    /\ mutex = [writer |-> None, readers |-> {}]
    /\ pc = [w \in Workers |-> "idle"]
    /\ loc = [w \in Workers |-> NoLocals]
    /\ committed = monitoring

\* merge_namespaces(a, b) runs and returns
MergeNamespaces ==
    /\ last.op = "merge_call"
    /\ last' = [op |-> "merge_return", a |-> last.a, b |-> last.b,
                out |-> merge_namespaces(last.a, last.b),
                from |-> merge_returns(last.a, last.b)]
    /\ UNCHANGED <<monitoring, now, threads>>

NextMerge == MergeNamespaces

\* merge_namespaces on every pair of sorted vectors
SpecMerge == InitMerge /\ [][NextMerge]_vars

\* ------------------------------------------------------------------ claims
SameHandle(x, y) ==
    \/ (x.push_conn # None /\ x.push_conn = y.push_conn)
    \/ (x.quic # None /\ x.quic = y.quic)

\* C4: no two monitors of one account key carry the same transport handle
\* (queue connection id or QUIC connection), whatever handles the calls supplied.
C4_NoDuplicateTransport ==
    \A k \in Keys : \A i, j \in 1..Len(monitoring[k]) :
        i < j => ~SameHandle(monitoring[k][i], monitoring[k][j])

\* C7: every stored monitor has at least one of its two transport handles set.
C7_AtLeastOneTransport ==
    \A k \in Keys : \A i \in 1..Len(monitoring[k]) :
        monitoring[k][i].push_conn # None \/ monitoring[k][i].quic # None

\* C6: a fanout scan never dereferences an absent push_conn; a monitor without
\* one is left out of both target lists.
C6_NoAbsentDeref ==
    last.op = "notify" =>
        /\ ~last.targets.deref_absent
        /\ ~last.targets.fault
        /\ \A i \in SeqToSet(last.targets.picked) :
              monitoring[last.msg.pubkey][i].push_conn # None

\* what a fanout for msg must select, stated on the registry itself
Live(mon_data, ns, t) == mon_data.expiry >= t /\ ns \in SeqToSet(mon_data.namespaces)

RECURSIVE LiveIndices(_, _, _, _)
LiveIndices(range, it, ns, t) ==
    IF it > Len(range) THEN <<>>
    ELSE IF Live(range[it], ns, t)
    THEN <<it>> \o LiveIndices(range, it + 1, ns, t)
    ELSE LiveIndices(range, it + 1, ns, t)

RECURSIVE HandlesOf(_, _, _)
HandlesOf(range, idxs, wd) ==
    IF idxs = <<>> THEN <<>>
    ELSE IF range[Head(idxs)].want_data = wd
    THEN <<range[Head(idxs)].push_conn>> \o HandlesOf(range, Tail(idxs), wd)
    ELSE HandlesOf(range, Tail(idxs), wd)

\* C8: a fanout at time now pushes no target for a monitor whose expiry has
\* passed, even when its namespaces contain the message's namespace; it makes
\* one send per pushed target and none besides.
C8_ExpiredExcluded ==
    last.op = "notify" =>
        /\ \A i \in SeqToSet(last.targets.picked) :
              monitoring[last.msg.pubkey][i].expiry >= now
        /\ Len(last.targets.relay_to) + Len(last.targets.relay_to_with_data)
              <= Len(last.targets.picked)
        /\ Len(last.sends) <= Len(last.targets.picked)

C8_Witness ==
    /\ last.op = "notify"
    /\ last.targets.picked # <<>>
    /\ last.sends # <<>>
    /\ \E i \in 1..Len(monitoring[last.msg.pubkey]) :
          /\ monitoring[last.msg.pubkey][i].expiry < now
          /\ last.msg.msg_namespace \in SeqToSet(monitoring[last.msg.pubkey][i].namespaces)

\* C9: the targets of a fanout for (K, N) are exactly the unexpired monitors of
\* K whose namespaces contain N, each in one list: the with-data list iff its
\* want_data is set.
C9_ExactTargets ==
    last.op = "notify" =>
        LET range == monitoring[last.msg.pubkey]
            live == LiveIndices(range, 1, last.msg.msg_namespace, now)
        IN  /\ ~last.targets.fault
            /\ last.targets.picked = live
            /\ last.targets.relay_to = HandlesOf(range, live, FALSE)
            /\ last.targets.relay_to_with_data = HandlesOf(range, live, TRUE)

\* C10: an update through one queue connection leaves the monitors of every
\* other connection as they were, and the key then has a monitor of its own for
\* that connection.
C10_DistinctTransports ==
    [][(last'.op = "update" /\ last'.omq # None /\ last'.quic = None
            /\ Len(last'.keys) = 1)
        => LET k == last'.keys[1]
               o == last'.omq
               Other(m) == m.push_conn # o
           IN  /\ \E i \in 1..Len(monitoring'[k]) : monitoring'[k][i].push_conn = o
               /\ SelectSeq(monitoring'[k], Other) = SelectSeq(monitoring[k], Other)
               /\ \A k2 \in Keys \ {k} : monitoring'[k2] = monitoring[k2]]_vars

C10_Witness ==
    /\ last.op = "update" /\ last.omq # None /\ last.quic = None
    /\ \E k \in Keys : \E i, j \in 1..Len(monitoring[k]) :
          /\ monitoring[k][i].push_conn = last.omq
          /\ monitoring[k][j].push_conn \in Conns \ {last.omq}
          /\ monitoring[k][j].quic = None /\ monitoring[k][i].quic = None
          /\ monitoring[k][i].namespaces # monitoring[k][j].namespaces
          /\ monitoring[k][i].want_data # monitoring[k][j].want_data
          /\ monitoring[k][i].expiry > monitoring[k][j].expiry

HasBadItem(l) == l.input = "items" /\ \E i \in 1..Len(l.oks) : ~l.oks[i]

\* C2: a request that passes the framing test but has an item that does not
\* parse, at any position, gets the single BAD_ARGS reply, update_monitors is
\* not called and the registry stays as it was.
C2_AllOrNothing ==
    [][(last'.op = "handle" /\ HasBadItem(last'))
        => /\ last'.replies = <<BadArgs>>
           /\ last'.updated = <<>>
           /\ monitoring' = monitoring]_vars

C2_Witness ==
    /\ last.op = "handle" /\ last.input = "items" /\ last.shape = "list"
    /\ last.oks = <<TRUE, FALSE>>
    /\ last.replies = <<BadArgs>>
    /\ NumEntries(monitoring) > 0

BadlyFramed(l) ==
    l.input = "raw" /\ l.parts = 1 /\ (l.empty \/ l.first \notin {"d", "l"} \/ l.back # "e")

\* C3: a request string that is empty, does not start with d or l, or does not
\* end with e gets the BAD_ARGS reply; nothing is parsed into the registry and
\* update_monitors is not called.
C3_FramingRejected ==
    [][(last'.op = "handle" /\ BadlyFramed(last'))
        => /\ last'.replies = <<BadArgs>>
           /\ last'.updated = <<>>
           /\ monitoring' = monitoring]_vars

C3_Witness ==
    /\ last.op = "handle" /\ last.input = "raw" /\ last.parts = 1
    /\ last.first = "d" /\ last.back = "x"
    /\ last.replies = <<BadArgs>>
    /\ NumEntries(monitoring) > 0

AskedOf(subs, k) == {i \in 1..Len(subs) : subs[i].pubkey = k}

\* C5: after update_monitors has run for a key and a queue connection, once or
\* for several items of one batch, the key has exactly one monitor of that
\* connection; its namespaces are those it had before joined with every
\* requested set, and its want_data is the OR of the old and the requested flags.
C5_RenewalConverges ==
    [][(last'.op = "handle" /\ last'.updated # <<>>)
        => \A k \in Keys :
             LET Mine(m) == m.push_conn = last'.conn
                 pre == SelectSeq(monitoring[k], Mine)
                 post == SelectSeq(monitoring'[k], Mine)
                 asked == AskedOf(last'.updated, k)
             IN  IF asked = {} THEN monitoring'[k] = monitoring[k]
                 ELSE /\ Len(pre) <= 1
                      /\ Len(post) = 1
                      /\ SeqToSet(post[1].namespaces) =
                            UNION ({SeqToSet(last'.updated[i].namespaces) : i \in asked}
                                   \cup {SeqToSet(pre[j].namespaces) : j \in 1..Len(pre)})
                      /\ post[1].want_data =
                            ((\E i \in asked : last'.updated[i].want_data)
                             \/ (\E j \in 1..Len(pre) : pre[j].want_data))
                      /\ Len(monitoring'[k]) = Len(monitoring[k]) + 1 - Len(pre)]_vars

\* two items of one batch for one key have become one monitor
C5_Witness ==
    /\ last.op = "handle" /\ Len(last.updated) = 2
    /\ last.updated[1].pubkey = last.updated[2].pubkey
    /\ last.updated[1].namespaces = <<2>> /\ last.updated[2].namespaces = <<1>>
    /\ last.updated[1].want_data /\ ~last.updated[2].want_data
    /\ LET range == monitoring[last.updated[1].pubkey]
       IN  /\ Len(range) = 1
           /\ range[1].namespaces = <<1, 2>>
           /\ range[1].want_data
           /\ range[1].push_conn = last.conn

MidBatch(w) == pc[w] = "update_loop" /\ 1 < loc[w].i /\ loc[w].i <= Len(loc[w].subs)

\* C1: whenever a fanout holds the shared lock, the registry it reads is as a
\* finished batch left it: no update batch is applied in part.
C1_BatchAtomic ==
    \A w \in Workers : pc[w] = "scan_loop" =>
        /\ monitoring = committed
        /\ \A u \in Workers : ~MidBatch(u)

\* a batch is applied in part while a fanout waits for the lock
C1_Witness ==
    \E w, u \in Workers :
        /\ pc[w] = "scan_lock"
        /\ MidBatch(u)
        /\ monitoring # committed
        /\ Len(committed[loc[w].msg.pubkey]) > 0

\* C11: when one argument of merge_namespaces is a superset of the other (equal
\* first elements and empty vectors included), the vector returned is one of
\* the two arguments, moved, and no new vector is built.
C11_NoNewContainer ==
    (last.op = "merge_return"
        /\ (SeqToSet(last.a) \subseteq SeqToSet(last.b)
            \/ SeqToSet(last.b) \subseteq SeqToSet(last.a)))
    => last.from \in {"a", "b"}

\* C12: merge_namespaces returns the sorted duplicate-free vector of the union
\* of its arguments; so it does not depend on their order, and merging a vector
\* with itself gives it back.
C12_MergeIsUnion ==
    last.op = "merge_return" =>
        /\ IsSorted(last.out)
        /\ SeqToSet(last.out) = SeqToSet(last.a) \cup SeqToSet(last.b)
        /\ last.out = merge_namespaces(last.b, last.a)
        /\ (last.a = last.b => last.out = last.a)

\* two vectors that overlap, neither within the other, merged into a new one
C12_Witness ==
    /\ last.op = "merge_return"
    /\ last.a = <<1, 3>> /\ last.b = <<2, 3>>
    /\ last.out = <<1, 2, 3>>
    /\ last.from = "c"

\* the workers inside a scope that holds monitoring_mutex_
InLockScope == {w \in Workers : pc[w] \in {"update_loop", "scan_loop"}}

\* C13: send_notifies sends nothing while it holds the registry lock: a worker
\* that is sending holds the lock neither shared nor unique, and the lock is
\* held only by workers inside the locked scopes, so a pending send keeps no
\* update and no other lookup from taking it.
C13_NoSendUnderLock ==
    /\ \A w \in Workers :
          pc[w] = "send" => w \notin mutex.readers /\ mutex.writer # w
    /\ mutex.readers \subseteq InLockScope
    /\ mutex.writer # None => mutex.writer \in InLockScope

\* a worker still has a target to send to while the other one has taken the
\* unique lock and is updating the registry
C13_Witness ==
    \E w, v \in Workers :
        /\ pc[w] = "send" /\ loc[w].relay_to \o loc[w].relay_to_with_data # <<>>
        /\ pc[v] = "update_loop" /\ mutex.writer = v

\* the payload of a notification without the data, and the number of sends of it
MetadataOnly(msg) ==
    << <<"d">>, <<"@", msg.pubkey>>, <<"h", msg.hash>>, <<"n", msg.msg_namespace>>,
       <<"t", msg.timestamp>>, <<"z", msg.expiry>>, <<"e">> >>
NumPlain == Len(last.targets.relay_to)

\* C14 as stated: every metadata-only target gets the same payload, and that
\* whole payload is a prefix of the payload sent to the targets that want the
\* data, which ends with the ~ field.
C14_PayloadIsPrefix ==
    last.op = "notify" =>
        \A i \in 1..Len(last.sends) :
            LET p == last.sends[i].payload
                m == MetadataOnly(last.msg)
            IN  IF i <= NumPlain THEN p = m
                ELSE Len(p) > Len(m) /\ SubSeq(p, 1, Len(m)) = m

\* C14, amended: every metadata-only target gets the same payload, the dict of
\* the fields @, h, n, t, z in this order; the payload for the targets that want
\* the data is that dict with the ~ field put last, before the closing e: the two
\* agree on every byte before the closing e of the metadata-only payload.
C14_MetadataPrefix ==
    last.op = "notify" =>
        \A i \in 1..Len(last.sends) :
            LET p == last.sends[i].payload
                m == MetadataOnly(last.msg)
            IN  IF i <= NumPlain THEN p = m
                ELSE /\ p = SubSeq(m, 1, Len(m) - 1)
                             \o << <<"~", last.msg.data>>, <<"e">> >>
                     /\ [j \in 1..Len(p) |-> p[j][1]]
                            = <<"d", "@", "h", "n", "t", "z", "~", "e">>

\* one message sent in both variants
C14_Witness ==
    /\ last.op = "notify"
    /\ NumPlain >= 1
    /\ Len(last.sends) > NumPlain
    /\ Len(last.sends[1].payload) = 7
    /\ Len(last.sends[Len(last.sends)].payload) = 8

AllOk(l) == l.input = "items" /\ \A i \in 1..Len(l.oks) : l.oks[i]

\* C15: every request gets exactly one reply.  A well-formed dict gets one
\* dict; a well-formed list of n items gets a list of n dicts, and the batch
\* given to update_monitors is the items of that request in order, an empty
\* list causing no call; any other request gets the single BAD_ARGS dict.
C15_OneReplyMirrorsShape ==
    last.op = "handle" =>
        /\ Len(last.replies) = 1
        /\ IF AllOk(last)
           THEN /\ last.replies[1] = [kind |-> last.shape, n |-> Len(last.items)]
                /\ last.shape = "dict" => last.replies[1].n = 1
                /\ last.updated = [i \in 1..Len(last.items) |-> last.items[i].sub]
           ELSE /\ last.input = "items" => last.replies[1] = BadArgs
                /\ last.replies[1] = BadArgs => last.updated = <<>>
                /\ last.replies[1] # BadArgs =>
                      last.replies[1].n = Len(last.updated)

\* a list of two well-formed items answered by a list of two dicts
C15_Witness ==
    /\ last.op = "handle" /\ AllOk(last) /\ last.shape = "list"
    /\ Len(last.items) = 2
    /\ last.replies = <<[kind |-> "list", n |-> 2]>>
    /\ Len(last.updated) = 2

\* C16: in every reachable state the namespaces of every monitor are strictly
\* increasing (sorted, no duplicate), and so binary_search on them finds a
\* namespace exactly when it is one of them.
C16_NamespacesSorted ==
    \A k \in Keys : \A i \in 1..Len(monitoring[k]) :
        LET v == monitoring[k][i].namespaces
        IN  /\ IsSorted(v)
            /\ \A ns \in 0..(MaxNs + 1) : binary_search(v, ns) <=> ns \in SeqToSet(v)

\* a monitor whose namespaces grew by a renewal is found by the search
C16_Witness ==
    /\ last.op = "notify"
    /\ last.msg.msg_namespace = MaxNs
    /\ \E i \in 1..Len(monitoring[last.msg.pubkey]) :
          /\ Len(monitoring[last.msg.pubkey][i].namespaces) = MaxNs
          /\ i \in SeqToSet(last.targets.picked)

\* C17: an update that matches a monitor sets its expiry to the time of the
\* update plus TTL, also when the monitor had expired: the monitor is renewed
\* where it is and none is added; it is then selected, for each of its
\* namespaces, at every time up to the new expiry.  No expiry is ever later
\* than the clock plus TTL.
C17_ExpiryRefreshed ==
    [][(last'.op = "update" /\ Len(last'.keys) = 1) =>
        LET k == last'.keys[1]
            it == first_match(monitoring[k], last'.omq, last'.quic, 1)
        IN  /\ it # 0 =>
                /\ Len(monitoring'[k]) = Len(monitoring[k])
                /\ monitoring'[k][it].expiry = now + TTL
                /\ \A t \in now..(now + TTL) :
                      \A ns \in SeqToSet(monitoring'[k][it].namespaces) :
                          monitor_selected(monitoring'[k][it], ns, t)
            /\ \A j \in 1..Len(monitoring'[k]) : monitoring'[k][j].expiry <= now + TTL
      ]_vars

\* an update has just renewed a monitor that had expired
C17_Witness ==
    /\ last.op = "update" /\ Len(last.keys) = 1 /\ last.stale
    /\ \E i \in 1..Len(monitoring[last.keys[1]]) :
          /\ monitoring[last.keys[1]][i].expiry = now + TTL
          /\ monitoring[last.keys[1]][i].push_conn = last.omq
    /\ now >= TTL + 1

\* a transport handle after a renewal: kept when set, else the caller's
Backfilled(old, supplied) == IF old # None THEN old ELSE supplied

\* C18: when an update matches a monitor, each transport handle the monitor
\* has keeps its value and each one it lacks becomes the caller's (absent when
\* the caller gave none); every other monitor, of this key and of the others,
\* stays as it was.
C18_BackfillKeeps ==
    [][(last'.op = "update" /\ Len(last'.keys) = 1) =>
        LET k == last'.keys[1]
            it == first_match(monitoring[k], last'.omq, last'.quic, 1)
        IN  it # 0 =>
              /\ Len(monitoring'[k]) = Len(monitoring[k])
              /\ monitoring'[k][it].push_conn
                    = Backfilled(monitoring[k][it].push_conn, last'.omq)
              /\ monitoring'[k][it].quic = Backfilled(monitoring[k][it].quic, last'.quic)
              /\ \A j \in 1..Len(monitoring[k]) :
                    j # it => monitoring'[k][j] = monitoring[k][j]
              /\ \A o \in Keys \ {k} : monitoring'[o] = monitoring[o]
      ]_vars

\* the only monitor of a key was matched by its quic handle and has kept a
\* queue connection that is not the caller's
C18_Witness ==
    /\ last.op = "update" /\ Len(last.keys) = 1
    /\ last.omq # None /\ last.quic # None
    /\ Len(monitoring[last.keys[1]]) = 1
    /\ monitoring[last.keys[1]][1].quic = last.quic
    /\ monitoring[last.keys[1]][1].push_conn \in Conns \ {last.omq}
    /\ monitoring[last.keys[1]][1].expiry = now + TTL

\* C19: no step removes a monitor: the number of monitors of each key never
\* goes down, whatever has expired, and a send_notifies (like the passing of
\* time) leaves the whole registry as it was.
C19_NoEviction ==
    [][/\ \A k \in Keys : Len(monitoring'[k]) >= Len(monitoring[k])
       /\ NumEntries(monitoring') >= NumEntries(monitoring)
       /\ last'.op \in {"notify", "tick"} => monitoring' = monitoring
      ]_vars

\* a notification has passed over an expired monitor of its key and namespace,
\* which is still stored
C19_Witness ==
    /\ last.op = "notify"
    /\ \E i \in 1..Len(monitoring[last.msg.pubkey]) :
          /\ monitoring[last.msg.pubkey][i].expiry < now
          /\ last.msg.msg_namespace \in SeqToSet(monitoring[last.msg.pubkey][i].namespaces)
          /\ i \notin SeqToSet(last.targets.picked)

\* a worker waiting for the shared lock gets it whenever no update holds the
\* mutex, whoever is scanning; and a scan and an update never hold it together
LookupsShare ==
    /\ \A w \in Workers :
          (pc[w] = "scan_lock" /\ \A v \in Workers : pc[v] # "update_loop")
              => can_lock_shared(mutex)
    /\ mutex.writer # None => mutex.readers = {}

====
